---- MODULE Spec2Model ----
(***************************************************************************)
(* A model of blogdown's renderer (renderer/renderer.go): the page         *)
(* assembler RenderAst, the recursive renderer renderAstNode, the lazily   *)
(* populated template registry KindTemplateMap, and the two extractors     *)
(* generateTemplateDataContent and generateTemplateDataConfig.             *)
(*                                                                         *)
(* Strings are modelled as sequences of lexical tokens; "/" is always a    *)
(* token of its own, so prefix tests and path splitting are computed.      *)
(* File-system paths are sequences of components relative to the working   *)
(* directory.                                                             *)
(***************************************************************************)
EXTENDS Integers, Sequences, FiniteSets, TLC

VARIABLES
    threads,          \* the goroutines that call RenderAst
    callLimit,        \* how many times each of them calls it
    privileged,       \* environment: the process bypasses permission checks
    diskFault,        \* environment: the device fails in the middle of a write
    templates,        \* environment: the template store, file -> condition
    tree,             \* input: the node tree (documentNode)
    meta,             \* input: the metadata mapping (pageMetadata)
    bytes,            \* input: the source buffer (inputFileBytes)
    KindTemplateMap,  \* the process-wide registry, kind -> template file
    fs,               \* the file system below the working directory
    fatal,            \* the Go runtime aborted the process
    pc,               \* per goroutine: the statement it is at
    stack,            \* per goroutine: the renderAstNode frames
    ret,              \* per goroutine: what the last renderAstNode returned
    local,            \* per goroutine: RenderAst's and getTemplateContent's locals
    results,          \* per goroutine: the error each finished RenderAst returned
    hist,             \* per goroutine: what the current call has done so far
    pure              \* the extractor under test and its result

vars == <<threads, callLimit, privileged, diskFault, templates, tree, meta, bytes,
          KindTemplateMap, fs, fatal, pc, stack, ret, local, results, hist, pure>>

----------------------------------------------------------------------------
(* Bounds of the model *)

MaxNodes == 3
MaxCalls == 2
MaxLen == 3
MaxLevel == 3
ConcNodes == 2

AllThreads == {1, 2}

----------------------------------------------------------------------------
(* Strings and paths *)

Slash == "/"

HasPrefixSlash(s) == Len(s) > 0 /\ s[1] = Slash

RECURSIVE SplitFrom(_, _, _)
\* the components of s[i..], cur being the component read so far
SplitFrom(s, i, cur) ==
    IF i > Len(s) THEN <<cur>>
    ELSE IF s[i] = Slash THEN <<cur>> \o SplitFrom(s, i + 1, <<>>)
    ELSE SplitFrom(s, i + 1, Append(cur, s[i]))

Split(s) == SplitFrom(s, 1, <<>>)

RECURSIVE JoinStrings(_)
\* strings.Join(elems, "/") over the non-empty elements, as path.Join does
JoinStrings(elems) ==
    IF Len(elems) = 0 THEN <<>>
    ELSE IF Len(Head(elems)) = 0 THEN JoinStrings(Tail(elems))
    ELSE LET rest == JoinStrings(Tail(elems))
         IN IF Len(rest) = 0 THEN Head(elems)
            ELSE Head(elems) \o <<Slash>> \o rest

RECURSIVE CleanFrom(_, _, _, _)
\* path.Clean over the components cs[i..]; acc is the cleaned path so far
CleanFrom(cs, i, rooted, acc) ==
    IF i > Len(cs) THEN acc
    ELSE LET c == cs[i] IN
         IF c = <<>> \/ c = <<".">> THEN CleanFrom(cs, i + 1, rooted, acc)
         ELSE IF c = <<"..">> THEN
              IF Len(acc) > 0 /\ acc[Len(acc)] # <<"..">>
              THEN CleanFrom(cs, i + 1, rooted, SubSeq(acc, 1, Len(acc) - 1))
              ELSE IF rooted THEN CleanFrom(cs, i + 1, rooted, acc)
              ELSE CleanFrom(cs, i + 1, rooted, Append(acc, c))
         ELSE CleanFrom(cs, i + 1, rooted, Append(acc, c))

\* path.Join: the elements joined by "/", then cleaned
pathJoin(elems) ==
    LET s == JoinStrings(elems)
    IN [abs |-> HasPrefixSlash(s),
        comps |-> CleanFrom(Split(s), 1, HasPrefixSlash(s), <<>>)]

----------------------------------------------------------------------------
(* The template registry's contents (renderer.go, the const block and      *)
(* InitKindTemplateMap)                                                     *)

BlockDir == <<"..", Slash, "templates", Slash, "block", Slash>>
InlineDir == <<"..", Slash, "templates", Slash, "inline", Slash>>

DocumentTemplatePath == BlockDir \o <<"document.tmpl.html">>
TextBlockTemplatePath == BlockDir \o <<"text-block.tmpl.html">>
ParagraphTemplatePath == BlockDir \o <<"paragraph.tmpl.html">>
HeadingTemplatePath == BlockDir \o <<"heading.tmpl.html">>
ThematicBreakTemplatePath == BlockDir \o <<"thematic-break.tmpl.html">>
CodeBlockTemplatePath == BlockDir \o <<"code-block.tmpl.html">>
FencedCodeBlockTemplatePath == BlockDir \o <<"fenced-code-block.tmpl.html">>
BlockquoteTemplatePath == BlockDir \o <<"blockquote.tmpl.html">>
ListTemplatePath == BlockDir \o <<"list.tmpl.html">>
ListItemTemplatePath == BlockDir \o <<"list-item.tmpl.html">>
HTMLBlockTemplatePath == BlockDir \o <<"html-block.tmpl.html">>
TextTemplatePath == InlineDir \o <<"text.tmpl.html">>
StringTemplatePath == InlineDir \o <<"string.tmpl.html">>
CodeSpanTemplatePath == InlineDir \o <<"code-span.tmpl.html">>
EmphasisTemplatePath == InlineDir \o <<"emphasis.tmpl.html">>
LinkTemplatePath == InlineDir \o <<"link.tmpl.html">>
ImageTemplatePath == InlineDir \o <<"image.tmpl.html">>
AutoLinkTemplatePath == InlineDir \o <<"auto-link.tmpl.html">>
RawHTMLTemplatePath == InlineDir \o <<"raw-html.tmpl.html">>

\* path.Dir of the renderer's own source file, as runtime.Caller reports it
rendererPath == <<Slash, "blogdown", Slash, "renderer">>

\* the assignments of InitKindTemplateMap, in the order the code makes them
Registrations ==
    << <<"Document", DocumentTemplatePath>>,
       <<"TextBlock", TextBlockTemplatePath>>,
       <<"Paragraph", ParagraphTemplatePath>>,
       <<"Heading", HeadingTemplatePath>>,
       <<"ThematicBreak", ThematicBreakTemplatePath>>,
       <<"CodeBlock", CodeBlockTemplatePath>>,
       <<"FencedCodeBlock", FencedCodeBlockTemplatePath>>,
       <<"Blockquote", BlockquoteTemplatePath>>,
       <<"List", ListTemplatePath>>,
       <<"ListItem", ListItemTemplatePath>>,
       <<"HTMLBlock", HTMLBlockTemplatePath>>,
       <<"Text", TextTemplatePath>>,
       <<"String", StringTemplatePath>>,
       <<"CodeSpan", CodeSpanTemplatePath>>,
       <<"Emphasis", EmphasisTemplatePath>>,
       <<"Link", LinkTemplatePath>>,
       <<"Image", ImageTemplatePath>>,
       <<"AutoLink", AutoLinkTemplatePath>>,
       <<"RawHTML", RawHTMLTemplatePath>> >>

RegisteredKinds == {Registrations[i][1] : i \in 1..Len(Registrations)}

\* the value one assignment stores: path.Join(rendererPath, <constant>)
RegisteredFile(i) == pathJoin(<<rendererPath, Registrations[i][2]>>)

TemplateFiles == {RegisteredFile(i) : i \in 1..Len(Registrations)}

\* the map after assignments 1..n
MapAfter(n) ==
    [k \in {Registrations[i][1] : i \in 1..n} |->
        RegisteredFile(CHOOSE i \in 1..n : Registrations[i][1] = k)]

EmptyMap == MapAfter(0)

\* a node kind the GFM extension of parser.NewParser produces and the
\* registry does not list
ExtensionKinds == {"Table"}

----------------------------------------------------------------------------
(* Errors *)

Nil == [type |-> "nil"]
MissingField(f) == [type |-> "missing", field |-> f]
BadPath == [type |-> "badpath"]
UnregisteredKind(k) == [type |-> "unregistered", kind |-> k]
ReadError(file) == [type |-> "readfile", file |-> file]
ParseError(file) == [type |-> "parse", file |-> file]
ExecError(file) == [type |-> "exec", file |-> file]
PathError(op, errno) == [type |-> "os", op |-> op, errno |-> errno]

----------------------------------------------------------------------------
(* The file system: os.Stat, os.MkdirAll and ioutil.WriteFile as RenderAst  *)
(* calls them.  fs maps each existing path to [type, mode, data]; the       *)
(* working directory is the empty path and always usable.                   *)

\* an os.FileMode is the set of the positions of its bits that are set
\* os.ModeDir = 1 << 31, os.ModeAppend = 1 << 30
ModeDir == {31}
ModeAppend == {30}

\* FileMode.Perm: the nine permission bits, which is what mkdir(2) and
\* open(2) receive
Perm(mode) == mode \cap 0..8

\* 0200 and 0100, the owner's write and search bits
OwnerCanWrite(mode) == 7 \in Perm(mode)
OwnerCanSearch(mode) == 6 \in Perm(mode)

\* a directory the user made beforehand, 0755
UserDirMode == {8, 7, 6, 5, 3, 2, 0}

Parent(p) == SubSeq(p, 1, Len(p) - 1)

Exists(f, p) == p = <<>> \/ p \in DOMAIN f
IsDir(f, p) == p = <<>> \/ (p \in DOMAIN f /\ f[p].type = "dir")
Writable(f, priv, p) == priv \/ p = <<>> \/ OwnerCanWrite(f[p].mode)
Searchable(f, priv, p) == priv \/ p = <<>> \/ OwnerCanSearch(f[p].mode)

\* the errno of resolving the directories that lead to p ("" when they resolve)
LookupParent(f, priv, p) ==
    LET bad == {i \in 1..(Len(p) - 1) :
                   \/ ~Exists(f, SubSeq(p, 1, i))
                   \/ ~IsDir(f, SubSeq(p, 1, i))
                   \/ ~Searchable(f, priv, SubSeq(p, 1, i))}
    IN IF bad = {} THEN ""
       ELSE LET i == CHOOSE x \in bad : \A y \in bad : x <= y
                q == SubSeq(p, 1, i)
            IN IF ~Exists(f, q) THEN "ENOENT"
               ELSE IF ~IsDir(f, q) THEN "ENOTDIR"
               ELSE "EACCES"

\* os.Stat(p): its errno ("" when p exists and can be reached)
StatErrno(f, priv, p) ==
    LET e == LookupParent(f, priv, p)
    IN IF e # "" THEN e ELSE IF Exists(f, p) THEN "" ELSE "ENOENT"

\* os.Mkdir(p, perm)
Mkdir(f, priv, p, perm) ==
    LET e == LookupParent(f, priv, p)
    IN IF e # "" THEN [fs |-> f, errno |-> e]
       ELSE IF Exists(f, p) THEN [fs |-> f, errno |-> "EEXIST"]
       ELSE IF ~Writable(f, priv, Parent(p)) THEN [fs |-> f, errno |-> "EACCES"]
       ELSE [fs |-> (p :> [type |-> "dir", mode |-> Perm(perm), data |-> <<>>]) @@ f,
             errno |-> ""]

RECURSIVE MkdirAll(_, _, _, _)
\* os.MkdirAll(p, perm): the parents first, each made with the same perm
MkdirAll(f, priv, p, perm) ==
    IF StatErrno(f, priv, p) = ""
    THEN [fs |-> f, errno |-> IF IsDir(f, p) THEN "" ELSE "ENOTDIR"]
    ELSE LET up == IF Len(p) > 1 THEN MkdirAll(f, priv, Parent(p), perm)
                   ELSE [fs |-> f, errno |-> ""]
         IN IF up.errno # "" THEN up
            ELSE LET made == Mkdir(up.fs, priv, p, perm)
                 IN IF made.errno # ""
                       /\ StatErrno(up.fs, priv, p) = "" /\ IsDir(up.fs, p)
                    THEN [fs |-> up.fs, errno |-> ""]
                    ELSE made

\* os.OpenFile(p, O_WRONLY|O_CREATE|O_TRUNC, perm), the first half of WriteFile
OpenTrunc(f, priv, p, perm) ==
    LET e == LookupParent(f, priv, p)
    IN IF e # "" THEN [fs |-> f, errno |-> e]
       ELSE IF Exists(f, p) THEN
            IF IsDir(f, p) THEN [fs |-> f, errno |-> "EISDIR"]
            ELSE IF ~Writable(f, priv, p) THEN [fs |-> f, errno |-> "EACCES"]
            ELSE [fs |-> [f EXCEPT ![p].data = <<>>], errno |-> ""]
       ELSE IF ~Writable(f, priv, Parent(p)) THEN [fs |-> f, errno |-> "EACCES"]
       ELSE [fs |-> (p :> [type |-> "file", mode |-> Perm(perm), data |-> <<>>]) @@ f,
             errno |-> ""]

\* what a write that the device cuts short leaves behind
ShortWrite(data) == SubSeq(data, 1, Len(data) - 1)

\* the directory and the file RenderAst names (lines 124, 125 and 131)
BuildDir(pagePath) == pathJoin(<< <<"build">>, pagePath >>).comps

OutputFile(pagePath) ==
    pathJoin(<< <<"build">>, pagePath, <<Slash, "index.html">> >>).comps

----------------------------------------------------------------------------
(* Nodes.  A tree is a sequence of nodes; child and next hold the index of  *)
(* the first child and of the next sibling, 0 for none.                     *)

HasChildren(t, n) == t[n].child # 0
FirstChild(t, n) == t[n].child
NextSibling(t, n) == t[n].next
Kind(t, n) == t[n].kind

\* text.Segment.Value: the bytes from Start up to Stop
SegmentValue(seg, buf) == SubSeq(buf, seg.Start + 1, seg.Stop)

RECURSIVE ConcatLines(_, _, _)
\* the loop of lines 185-188
ConcatLines(lines, i, buf) ==
    IF i > Len(lines) THEN <<>>
    ELSE SegmentValue(lines[i], buf) \o ConcatLines(lines, i + 1, buf)

\* a slip: the two branches of the soft-line-break test exchanged
ContentBreaksExchanged(node, inputFileBytes) ==
    IF node.kind = "Text"
    THEN IF ~node.soft
         THEN SegmentValue(node.seg, inputFileBytes) \o <<"\n">>
         ELSE SegmentValue(node.seg, inputFileBytes) \o <<"<br/>", "\n">>
    ELSE IF node.kind = "FencedCodeBlock"
    THEN ConcatLines(node.lines, 1, inputFileBytes)
    ELSE <<>>

generateTemplateDataContent(node, inputFileBytes) ==
    IF node.kind = "Text"
    THEN IF node.soft
         THEN SegmentValue(node.seg, inputFileBytes) \o <<"\n">>
         ELSE SegmentValue(node.seg, inputFileBytes) \o <<"<br/>", "\n">>
    ELSE IF node.kind = "FencedCodeBlock"
    THEN ConcatLines(node.lines, 1, inputFileBytes)
    ELSE <<>>

\* a slip: "strong" for level 2 only, "em" for everything else
ConfigStrongOnlyAtTwo(node) ==
    IF node.kind = "Heading" THEN [level |-> node.level]
    ELSE IF node.kind = "Emphasis"
    THEN IF node.level = 2 THEN [tagType |-> "strong"] ELSE [tagType |-> "em"]
    ELSE <<>>

generateTemplateDataConfig(node) ==
    IF node.kind = "Heading" THEN [level |-> node.level]
    ELSE IF node.kind = "Emphasis"
    THEN IF node.level = 1 THEN [tagType |-> "em"] ELSE [tagType |-> "strong"]
    ELSE <<>>

----------------------------------------------------------------------------
(* Templates *)

NL == [tok |-> "\n"]

\* renderTemplateToString: parse, then execute; the instantiated template is
\* one token that holds everything the template was given
renderTemplateToString(templateContent, templateData) ==
    IF templateContent.cond = "unparsable"
    THEN [out |-> <<>>, err |-> ParseError(templateContent.file)]
    ELSE IF templateContent.cond = "unexecutable"
    THEN [out |-> <<>>, err |-> ExecError(templateContent.file)]
    ELSE [out |-> <<[tok |-> "fragment", tmpl |-> templateContent.file,
                     data |-> templateData]>>,
          err |-> Nil]

\* a slip: the separator left out of the format string
JoinWithoutNewline(output, nextSiblingContent) == output \o nextSiblingContent

\* line 165: fmt.Sprintf("%s\n%s", output, nextSiblingContent)
JoinSibling(output, nextSiblingContent) ==
    output \o <<NL>> \o nextSiblingContent

\* a slip: a bare return, which hands back the output built so far
SiblingFailedKeepsOutput(output, err) == [out |-> output, err |-> err]

\* line 163: return "", err
SiblingFailed(output, err) == [out |-> <<>>, err |-> err]

\* fmt.Sprintf("%s", v) of a metadata value
Sprintf(v) ==
    IF v.type = "string" THEN v.s
    ELSE IF v.type = "<nil>" THEN <<"%!s(<nil>)">>
    ELSE <<"%!s(", v.type, "=">> \o v.s \o <<")">>

----------------------------------------------------------------------------
(* RenderAst's validation and the PageMeta it builds (lines 89-118)        *)

RequiredKeys == <<"title", "description", "slug", "path">>

\* a Go map read: the zero value, a nil interface, for a key that is absent
MapGet(m, k) == IF k \in DOMAIN m THEN m[k] ELSE [type |-> "<nil>", s |-> <<>>]

\* a slip: the check of "slug" left out
ValidationWithoutSlug(pageMetadata) ==
    IF "title" \notin DOMAIN pageMetadata THEN MissingField("title")
    ELSE IF "description" \notin DOMAIN pageMetadata THEN MissingField("description")
    ELSE IF "path" \notin DOMAIN pageMetadata THEN MissingField("path")
    ELSE IF ~HasPrefixSlash(Sprintf(MapGet(pageMetadata, "path"))) THEN BadPath
    ELSE Nil

\* the error of lines 89-111, Nil when the metadata passes
ValidationError(pageMetadata) ==
    IF "title" \notin DOMAIN pageMetadata THEN MissingField("title")
    ELSE IF "description" \notin DOMAIN pageMetadata THEN MissingField("description")
    ELSE IF "slug" \notin DOMAIN pageMetadata THEN MissingField("slug")
    ELSE IF "path" \notin DOMAIN pageMetadata THEN MissingField("path")
    ELSE IF ~HasPrefixSlash(Sprintf(MapGet(pageMetadata, "path"))) THEN BadPath
    ELSE Nil

\* lines 113-118
MakePageMeta(pageMetadata) ==
    [Title |-> Sprintf(MapGet(pageMetadata, "title")),
     Description |-> Sprintf(MapGet(pageMetadata, "description")),
     Slug |-> Sprintf(MapGet(pageMetadata, "slug")),
     Path |-> DocumentTemplatePath]

----------------------------------------------------------------------------
(* The inputs the model draws from *)

StringValue(s) == [type |-> "string", s |-> s]
IntValue(s) == [type |-> "int", s |-> s]

PathValues ==
    {StringValue(<<Slash, "about">>), StringValue(<<"about">>),
     StringValue(<<Slash>>), IntValue(<<"5">>)}

MetaOf(keys, pathValue) ==
    [k \in keys |-> IF k = "path" THEN pathValue ELSE StringValue(<<"a ", k>>)]

AllKeys == {RequiredKeys[i] : i \in 1..Len(RequiredKeys)}

\* every set of keys with a good path, and every path with all the keys
Metas ==
    {MetaOf(keys, StringValue(<<Slash, "about">>)) : keys \in SUBSET AllKeys}
    \cup {MetaOf(AllKeys, pv) : pv \in PathValues}

Palette == {"Paragraph", "Text"} \cup ExtensionKinds

RECURSIVE AncestorsOrSelf(_, _)
AncestorsOrSelf(parent, j) ==
    IF j = 0 THEN {} ELSE {j} \cup AncestorsOrSelf(parent, parent[j])

\* parent vectors of the trees of n nodes, numbered in document order
ParentVectors(n) ==
    {p \in [1..n -> 0..(n - 1)] :
        /\ p[1] = 0
        /\ \A i \in 2..n : p[i] \in 1..(i - 1)
        /\ \A i \in 3..n : p[i] \in AncestorsOrSelf(p, i - 1)}

KindVectors(n) ==
    {k \in [1..n -> Palette \cup {"Document"}] :
        /\ k[1] = "Document"
        /\ \A i \in 2..n : k[i] \in Palette}

Least(S) == IF S = {} THEN 0 ELSE CHOOSE x \in S : \A y \in S : x <= y

SourceBytes == <<"h", "i", "\n">>

TreeOf(parent, kinds) ==
    [i \in 1..Len(kinds) |->
        [kind |-> kinds[i],
         child |-> Least({j \in 1..Len(kinds) : parent[j] = i}),
         next |-> Least({j \in (i + 1)..Len(kinds) : parent[j] = parent[i]}),
         seg |-> [Start |-> 0, Stop |-> IF kinds[i] = "Text" THEN 2 ELSE 0],
         soft |-> kinds[i] = "Text",
         level |-> 1,
         lines |-> <<>>]]

Trees(n) == {TreeOf(p, k) : p \in ParentVectors(n), k \in KindVectors(n)}

AllTrees(max) == UNION {Trees(n) : n \in 1..max}

AllGood == [f \in TemplateFiles |-> "ok"]

\* the template stores: every template sound, or the text template damaged
TemplateStores ==
    {AllGood} \cup
    {[AllGood EXCEPT ![pathJoin(<<rendererPath, TextTemplatePath>>)] = c] :
        c \in {"unreadable", "unparsable", "unexecutable"}}

EmptyFs == <<>>

UserDir == [type |-> "dir", mode |-> UserDirMode, data |-> <<>>]

\* build/about made by the user beforehand
PreparedFs ==
    (<< <<"build">> >> :> UserDir) @@ (<< <<"build">>, <<"about">> >> :> UserDir)

\* the environments: with sound templates, every privilege, device and
\* initial file system; with a damaged template, a sound device (the call
\* never reaches the device)
Environments ==
    {[privileged |-> p, diskFault |-> d, templates |-> AllGood, fs |-> f] :
        p \in BOOLEAN, d \in BOOLEAN, f \in {EmptyFs, PreparedFs}}
    \cup {[privileged |-> p, diskFault |-> FALSE, templates |-> st, fs |-> f] :
        p \in BOOLEAN, st \in TemplateStores, f \in {EmptyFs, PreparedFs}}

----------------------------------------------------------------------------
(* The state of one goroutine *)

NoTemplate == [file |-> pathJoin(<<>>), cond |-> "ok"]

NoLocals ==
    [pagePath |-> <<>>, output |-> <<>>, templateContent |-> NoTemplate, i |-> 0]

NoReturn == [out |-> <<>>, err |-> Nil]

\* what a call has done: the nodes it entered, the data it handed to
\* templates, the fragments it instantiated, what each renderAstNode
\* returned, its accesses to the registry, and the file system and the
\* registry as they were when it began
NewHistory(f, m) ==
    [visited |-> <<>>, handed |-> <<>>, rendered |-> <<>>, returned |-> <<>>,
     registryOps |-> 0, inits |-> 0, failedAt |-> 0, failure |-> Nil,
     fsBefore |-> f, mapBefore |-> m]

\* a renderAstNode activation: its parameters, its named result output and
\* its local firstChildContent; awaiting tells which call it is waiting for
Frame(n, pageMetadata, inputFileBytes) ==
    [n |-> n, pageMetadata |-> pageMetadata, inputFileBytes |-> inputFileBytes,
     firstChildContent |-> <<>>, output |-> <<>>, awaiting |-> "none"]

Top(t) == stack[t][Len(stack[t])]

SetTop(t, frame) == [stack[t] EXCEPT ![Len(stack[t])] = frame]

Running(t) == t \in threads /\ ~fatal

TypeOK ==
    /\ threads \subseteq AllThreads
    /\ privileged \in BOOLEAN /\ diskFault \in BOOLEAN /\ fatal \in BOOLEAN
    /\ \A t \in AllThreads :
        /\ pc[t] \in {"idle", "enter", "lenCheck", "initMake", "initPut",
                      "lookup", "render", "return", "stat", "mkdir", "open",
                      "write"}
        /\ Len(results[t]) <= MaxCalls + 1
        /\ (pc[t] \in {"enter", "lenCheck", "initMake", "initPut", "lookup",
                       "render", "return"}) => Len(stack[t]) > 0

----------------------------------------------------------------------------
(* RenderAst, lines 88-122: validation, then the call of renderAstNode on   *)
(* the document node                                                        *)

RenderAst(t) ==
    /\ Running(t)
    /\ pc[t] = "idle"
    /\ Len(results[t]) < callLimit
    /\ hist' = [hist EXCEPT ![t] = NewHistory(fs, KindTemplateMap)]
    /\ ret' = [ret EXCEPT ![t] = NoReturn]
    /\ IF ValidationError(meta) # Nil
       THEN /\ results' = [results EXCEPT ![t] = Append(@, ValidationError(meta))]
            /\ local' = [local EXCEPT ![t] = NoLocals]
            /\ UNCHANGED <<pc, stack>>
       ELSE /\ local' = [local EXCEPT ![t] =
                            [NoLocals EXCEPT !.pagePath =
                                             Sprintf(MapGet(meta, "path"))]]
            /\ stack' = [stack EXCEPT ![t] = <<Frame(1, MakePageMeta(meta), bytes)>>]
            /\ pc' = [pc EXCEPT ![t] = "enter"]
            /\ UNCHANGED results
    /\ UNCHANGED <<threads, callLimit, privileged, diskFault, templates, tree, meta, bytes,
                   KindTemplateMap, fs, fatal, pure>>

----------------------------------------------------------------------------
(* renderAstNode, lines 138-168 *)

\* lines 139-141: enter a node and, when it has children, call renderAstNode
\* on the first child
EnterNode(t) ==
    /\ Running(t)
    /\ pc[t] = "enter"
    /\ LET f == Top(t) IN
        /\ hist' = [hist EXCEPT ![t].visited = Append(@, f.n)]
        /\ IF HasChildren(tree, f.n)
           THEN /\ stack' = [stack EXCEPT ![t] =
                                Append(SetTop(t, [f EXCEPT !.awaiting = "child"]),
                                       Frame(FirstChild(tree, f.n), f.pageMetadata,
                                             f.inputFileBytes))]
                /\ UNCHANGED pc
           ELSE /\ pc' = [pc EXCEPT ![t] = "lenCheck"]
                /\ UNCHANGED stack
    /\ UNCHANGED <<threads, callLimit, privileged, diskFault, templates, tree, meta, bytes,
                   KindTemplateMap, fs, fatal, ret, local, results, pure>>

\* getTemplateContent, line 212: if len(KindTemplateMap) == 0
LenCheck(t) ==
    /\ Running(t)
    /\ pc[t] = "lenCheck"
    /\ hist' = [hist EXCEPT ![t].registryOps = @ + 1]
    /\ pc' = [pc EXCEPT ![t] =
                 IF Cardinality(DOMAIN KindTemplateMap) = 0 THEN "initMake"
                 ELSE "lookup"]
    /\ UNCHANGED <<threads, callLimit, privileged, diskFault, templates, tree, meta, bytes,
                   KindTemplateMap, fs, fatal, stack, ret, local, results, pure>>

\* InitKindTemplateMap, lines 61-66: KindTemplateMap = make(...)
InitMake(t) ==
    /\ Running(t)
    /\ pc[t] = "initMake"
    /\ KindTemplateMap' = EmptyMap
    /\ local' = [local EXCEPT ![t].i = 1]
    /\ hist' = [hist EXCEPT ![t].registryOps = @ + 1, ![t].inits = @ + 1]
    /\ pc' = [pc EXCEPT ![t] = "initPut"]
    /\ UNCHANGED <<threads, callLimit, privileged, diskFault, templates, tree, meta, bytes,
                   fs, fatal, stack, ret, results, pure>>

\* InitKindTemplateMap, one of the assignments of lines 67-85
InitPut(t) ==
    /\ Running(t)
    /\ pc[t] = "initPut"
    /\ LET i == local[t].i IN
        /\ KindTemplateMap' =
               (Registrations[i][1] :> RegisteredFile(i)) @@ KindTemplateMap
        /\ local' = [local EXCEPT ![t].i = i + 1]
        /\ pc' = [pc EXCEPT ![t] =
                     IF i = Len(Registrations) THEN "lookup" ELSE "initPut"]
    /\ hist' = [hist EXCEPT ![t].registryOps = @ + 1]
    /\ UNCHANGED <<threads, callLimit, privileged, diskFault, templates, tree, meta, bytes,
                   fs, fatal, stack, ret, results, pure>>

\* the failure of a node's own template: renderAstNode's bare return hands
\* back the named result output as it stands
FailNode(t, err) ==
    /\ ret' = [ret EXCEPT ![t] = [out |-> Top(t).output, err |-> err]]
    /\ hist' = [hist EXCEPT ![t].registryOps = @ + 1,
                            ![t].failedAt = Top(t).n,
                            ![t].failure = err]
    /\ pc' = [pc EXCEPT ![t] = "return"]
    /\ UNCHANGED <<stack, local>>

\* getTemplateContent, lines 215-223: the lookup and the read of the file
Lookup(t) ==
    /\ Running(t)
    /\ pc[t] = "lookup"
    /\ LET nodeKind == Kind(tree, Top(t).n) IN
        IF nodeKind \notin DOMAIN KindTemplateMap
        THEN FailNode(t, UnregisteredKind(nodeKind))
        ELSE LET templatePath == KindTemplateMap[nodeKind] IN
             IF templates[templatePath] = "unreadable"
             THEN FailNode(t, ReadError(templatePath))
             ELSE /\ local' = [local EXCEPT ![t].templateContent =
                                  [file |-> templatePath,
                                   cond |-> templates[templatePath]]]
                  /\ hist' = [hist EXCEPT ![t].registryOps = @ + 1]
                  /\ pc' = [pc EXCEPT ![t] = "render"]
                  /\ UNCHANGED <<stack, ret>>
    /\ UNCHANGED <<threads, callLimit, privileged, diskFault, templates, tree, meta, bytes,
                   KindTemplateMap, fs, fatal, results, pure>>

\* lines 150-161: instantiate the node's template, then call renderAstNode on
\* the next sibling or return
Render(t) ==
    /\ Running(t)
    /\ pc[t] = "render"
    /\ LET f == Top(t)
           templateData ==
               [Meta |-> f.pageMetadata,
                Config |-> generateTemplateDataConfig(tree[f.n]),
                Content |-> generateTemplateDataContent(tree[f.n], f.inputFileBytes),
                Children |-> f.firstChildContent]
           r == renderTemplateToString(local[t].templateContent, templateData)
           g == [f EXCEPT !.output = r.out]
       IN
        /\ hist' = [hist EXCEPT
                       ![t].handed = Append(@, [n |-> f.n, data |-> templateData,
                                               buffer |-> f.inputFileBytes]),
                       ![t].rendered = IF r.err = Nil
                                       THEN Append(@, [n |-> f.n, out |-> r.out])
                                       ELSE @,
                       ![t].failedAt = IF r.err = Nil THEN @ ELSE f.n,
                       ![t].failure = IF r.err = Nil THEN @ ELSE r.err]
        /\ IF r.err # Nil
           THEN /\ stack' = [stack EXCEPT ![t] = SetTop(t, g)]
                /\ ret' = [ret EXCEPT ![t] = [out |-> g.output, err |-> r.err]]
                /\ pc' = [pc EXCEPT ![t] = "return"]
           ELSE IF NextSibling(tree, f.n) # 0
           THEN /\ stack' = [stack EXCEPT ![t] =
                                Append(SetTop(t, [g EXCEPT !.awaiting = "sibling"]),
                                       Frame(NextSibling(tree, f.n), f.pageMetadata,
                                             f.inputFileBytes))]
                /\ pc' = [pc EXCEPT ![t] = "enter"]
                /\ UNCHANGED ret
           ELSE /\ stack' = [stack EXCEPT ![t] = SetTop(t, g)]
                /\ ret' = [ret EXCEPT ![t] = [out |-> g.output, err |-> Nil]]
                /\ pc' = [pc EXCEPT ![t] = "return"]
    /\ UNCHANGED <<threads, callLimit, privileged, diskFault, templates, tree, meta, bytes,
                   KindTemplateMap, fs, fatal, local, results, pure>>

\* a renderAstNode returns: to the caller waiting for its first child (lines
\* 141-145), to the caller waiting for its next sibling (lines 161-167), or
\* to RenderAst (lines 119-122)
Return(t) ==
    /\ Running(t)
    /\ pc[t] = "return"
    /\ LET rest == SubSeq(stack[t], 1, Len(stack[t]) - 1)
           r == ret[t]
       IN
        /\ hist' = [hist EXCEPT ![t].returned =
                       Append(@, [n |-> Top(t).n, out |-> r.out, err |-> r.err])]
        /\ IF Len(rest) = 0
           THEN /\ stack' = [stack EXCEPT ![t] = rest]
                /\ UNCHANGED ret
                /\ IF r.err # Nil
                   THEN /\ results' = [results EXCEPT ![t] = Append(@, r.err)]
                        /\ pc' = [pc EXCEPT ![t] = "idle"]
                        /\ UNCHANGED local
                   ELSE /\ local' = [local EXCEPT ![t].output = r.out]
                        /\ pc' = [pc EXCEPT ![t] = "stat"]
                        /\ UNCHANGED results
           ELSE LET caller == rest[Len(rest)] IN
                /\ UNCHANGED <<results, local>>
                /\ IF caller.awaiting = "child"
                   THEN IF r.err # Nil
                        THEN /\ stack' = [stack EXCEPT ![t] = rest]
                             /\ ret' = [ret EXCEPT ![t] =
                                           [out |-> caller.output, err |-> r.err]]
                             /\ UNCHANGED pc
                        ELSE /\ stack' = [stack EXCEPT ![t] =
                                    [rest EXCEPT ![Len(rest)] =
                                        [caller EXCEPT !.firstChildContent = r.out,
                                                       !.awaiting = "none"]]]
                             /\ pc' = [pc EXCEPT ![t] = "lenCheck"]
                             /\ UNCHANGED ret
                   ELSE /\ stack' = [stack EXCEPT ![t] = rest]
                        /\ UNCHANGED pc
                        /\ ret' = [ret EXCEPT ![t] =
                                      IF r.err # Nil
                                      THEN SiblingFailed(caller.output, r.err)
                                      ELSE [out |-> JoinSibling(caller.output, r.out),
                                            err |-> Nil]]
    /\ UNCHANGED <<threads, callLimit, privileged, diskFault, templates, tree, meta, bytes,
                   KindTemplateMap, fs, fatal, pure>>

----------------------------------------------------------------------------
(* RenderAst, lines 124-135: the output directory and the output file *)

Finish(t, err) ==
    /\ results' = [results EXCEPT ![t] = Append(@, err)]
    /\ pc' = [pc EXCEPT ![t] = "idle"]

\* line 124: os.Stat of the directory; only "does not exist" leads to MkdirAll
StatBuildDir(t) ==
    /\ Running(t)
    /\ pc[t] = "stat"
    /\ pc' = [pc EXCEPT ![t] =
                 IF StatErrno(fs, privileged, BuildDir(local[t].pagePath)) = "ENOENT"
                 THEN "mkdir" ELSE "open"]
    /\ UNCHANGED <<threads, callLimit, privileged, diskFault, templates, tree, meta, bytes,
                   KindTemplateMap, fs, fatal, stack, ret, local, results, hist,
                   pure>>

\* lines 125-128: os.MkdirAll(dir, os.ModeDir)
MakeBuildDir(t) ==
    /\ Running(t)
    /\ pc[t] = "mkdir"
    /\ LET made == MkdirAll(fs, privileged, BuildDir(local[t].pagePath), ModeDir) IN
        /\ fs' = made.fs
        /\ IF made.errno # ""
           THEN Finish(t, PathError("mkdir", made.errno))
           ELSE /\ pc' = [pc EXCEPT ![t] = "open"]
                /\ UNCHANGED results
    /\ UNCHANGED <<threads, callLimit, privileged, diskFault, templates, tree, meta, bytes,
                   KindTemplateMap, fatal, stack, ret, local, hist, pure>>

\* line 131, ioutil.WriteFile's first half: open, create, truncate
OpenOutput(t) ==
    /\ Running(t)
    /\ pc[t] = "open"
    /\ LET opened == OpenTrunc(fs, privileged, OutputFile(local[t].pagePath),
                               ModeAppend) IN
        /\ fs' = opened.fs
        /\ IF opened.errno # ""
           THEN Finish(t, PathError("open", opened.errno))
           ELSE /\ pc' = [pc EXCEPT ![t] = "write"]
                /\ UNCHANGED results
    /\ UNCHANGED <<threads, callLimit, privileged, diskFault, templates, tree, meta, bytes,
                   KindTemplateMap, fatal, stack, ret, local, hist, pure>>

\* line 131, ioutil.WriteFile's second half: write and close; lines 132-135
WriteOutput(t) ==
    /\ Running(t)
    /\ pc[t] = "write"
    /\ LET file == OutputFile(local[t].pagePath) IN
        IF diskFault
        THEN /\ fs' = [fs EXCEPT ![file].data = ShortWrite(local[t].output)]
             /\ Finish(t, PathError("write", "ENOSPC"))
        ELSE /\ fs' = [fs EXCEPT ![file].data = local[t].output]
             /\ Finish(t, Nil)
    /\ UNCHANGED <<threads, callLimit, privileged, diskFault, templates, tree, meta, bytes,
                   KindTemplateMap, fatal, stack, ret, local, hist, pure>>

----------------------------------------------------------------------------
(* The Go runtime: two goroutines in the registry's map at once, one of    *)
(* them writing, is a data race; the runtime may detect it and abort the   *)
(* process ("concurrent map writes", "concurrent map read and map write"). *)

RacingOnMap ==
    \E t1 \in threads, t2 \in threads :
        /\ t1 # t2
        /\ pc[t1] = "initPut"
        /\ pc[t2] \in {"initPut", "lookup"}

RuntimeAbort ==
    /\ ~fatal
    /\ RacingOnMap
    /\ fatal' = TRUE
    /\ UNCHANGED <<threads, callLimit, privileged, diskFault, templates, tree, meta, bytes,
                   KindTemplateMap, fs, pc, stack, ret, local, results, hist, pure>>

----------------------------------------------------------------------------
(* The extractors on their own *)

Segments(buf) ==
    {[Start |-> x[1], Stop |-> x[2]] :
        x \in {y \in (0..Len(buf)) \X (0..Len(buf)) : y[1] <= y[2]}}

Buffers == UNION {[1..n -> {"h", "\n"}] : n \in 0..MaxLen}

LineLists(buf) ==
    {<<>>} \cup {<<a>> : a \in Segments(buf)}
           \cup {<<a, b>> : a \in Segments(buf), b \in Segments(buf)}

Node(kind, seg, soft, level, lines) ==
    [kind |-> kind, child |-> 0, next |-> 0, seg |-> seg, soft |-> soft,
     level |-> level, lines |-> lines]

NoSegment == [Start |-> 0, Stop |-> 0]

\* the nodes the extractors are applied to
PureNodes(buf) ==
    {Node("Text", seg, soft, 0, <<>>) : seg \in Segments(buf), soft \in BOOLEAN}
    \cup {Node("FencedCodeBlock", NoSegment, FALSE, 0, l) : l \in LineLists(buf)}
    \cup {Node(k, NoSegment, FALSE, lv, <<>>) :
             k \in {"Heading", "Emphasis", "Paragraph"}, lv \in 0..MaxLevel}

PureIdle ==
    [node |-> Node("Document", NoSegment, FALSE, 0, <<>>), buf |-> <<>>,
     content |-> <<>>, config |-> <<>>, haveContent |-> FALSE,
     haveConfig |-> FALSE]

ExtractContent ==
    /\ ~pure.haveContent
    /\ pure' = [pure EXCEPT
                   !.content = generateTemplateDataContent(pure.node, pure.buf),
                   !.haveContent = TRUE]
    /\ UNCHANGED <<threads, callLimit, privileged, diskFault, templates, tree, meta, bytes,
                   KindTemplateMap, fs, fatal, pc, stack, ret, local, results, hist>>

ExtractConfig ==
    /\ ~pure.haveConfig
    /\ pure' = [pure EXCEPT
                   !.config = generateTemplateDataConfig(pure.node),
                   !.haveConfig = TRUE]
    /\ UNCHANGED <<threads, callLimit, privileged, diskFault, templates, tree, meta, bytes,
                   KindTemplateMap, fs, fatal, pc, stack, ret, local, results, hist>>

----------------------------------------------------------------------------
(* Specifications *)

\* everything but the inputs and the environment, as it is at process start:
\* KindTemplateMap is a nil map, no goroutine has called RenderAst
Fresh ==
    /\ bytes = SourceBytes
    /\ KindTemplateMap = EmptyMap
    /\ fatal = FALSE
    /\ pc = [t \in AllThreads |-> "idle"]
    /\ stack = [t \in AllThreads |-> <<>>]
    /\ ret = [t \in AllThreads |-> NoReturn]
    /\ local = [t \in AllThreads |-> NoLocals]
    /\ results = [t \in AllThreads |-> <<>>]

\* one goroutine calling RenderAst on the same page up to MaxCalls times
Init ==
    /\ threads = {1}
    /\ callLimit = MaxCalls
    /\ \E env \in Environments :
          /\ privileged = env.privileged
          /\ diskFault = env.diskFault
          /\ templates = env.templates
          /\ fs = env.fs
    /\ tree \in AllTrees(MaxNodes)
    /\ meta \in Metas
    /\ Fresh
    /\ hist = [t \in AllThreads |-> NewHistory(fs, KindTemplateMap)]
    /\ pure = PureIdle

Step(t) ==
    \/ RenderAst(t)
    \/ EnterNode(t)
    \/ LenCheck(t)
    \/ InitMake(t)
    \/ InitPut(t)
    \/ Lookup(t)
    \/ Render(t)
    \/ Return(t)
    \/ StatBuildDir(t)
    \/ MakeBuildDir(t)
    \/ OpenOutput(t)
    \/ WriteOutput(t)

Next == \E t \in AllThreads : Step(t)

Spec == Init /\ [][Next]_vars

\* two goroutines, each calling RenderAst once, in a working environment
ValidMeta == MetaOf(AllKeys, StringValue(<<Slash, "about">>))

InitConc ==
    /\ threads = AllThreads
    /\ callLimit = 1
    /\ privileged = TRUE
    /\ diskFault = FALSE
    /\ templates = AllGood
    /\ tree \in {tr \in AllTrees(ConcNodes) :
                    \A n \in 1..Len(tr) : tr[n].kind \in RegisteredKinds}
    /\ meta = ValidMeta
    /\ fs = EmptyFs
    /\ Fresh
    /\ hist = [t \in AllThreads |-> NewHistory(fs, KindTemplateMap)]
    /\ pure = PureIdle

NextConc == (\E t \in AllThreads : Step(t)) \/ RuntimeAbort

SpecConc == InitConc /\ [][NextConc]_vars

\* the extractors applied to every node and buffer within the bounds
InitPure ==
    /\ threads = {}
    /\ callLimit = 0
    /\ privileged = TRUE
    /\ diskFault = FALSE
    /\ templates = AllGood
    /\ tree = TreeOf(<<0>>, <<"Document">>)
    /\ meta = ValidMeta
    /\ fs = EmptyFs
    /\ Fresh
    /\ hist = [t \in AllThreads |-> NewHistory(fs, KindTemplateMap)]
    /\ \E buf \in Buffers : \E n \in PureNodes(buf) :
           pure = [PureIdle EXCEPT !.node = n, !.buf = buf]

NextPure == ExtractContent \/ ExtractConfig

SpecPure == InitPure /\ [][NextPure]_vars

----------------------------------------------------------------------------
(* Vocabulary of the properties *)

Finished(t) == pc[t] = "idle" /\ Len(results[t]) >= 1

LastResult(t) == results[t][Len(results[t])]

Range(seq) == {seq[i] : i \in 1..Len(seq)}

RECURSIVE SiblingChain(_, _)
\* n and the siblings that follow it, left to right
SiblingChain(tr, n) ==
    IF tr[n].next = 0 THEN <<n>> ELSE <<n>> \o SiblingChain(tr, tr[n].next)

\* the fragments the current call instantiated for node n
FragmentsOf(t, n) == {e.out : e \in {x \in Range(hist[t].rendered) : x.n = n}}

\* what the renderAstNode calls on node n returned in the current call
ReturnsOf(t, n) == {e \in Range(hist[t].returned) : e.n = n}

MissingKeys(m) == AllKeys \ DOMAIN m

\* the nodes whose template cannot be resolved, read, parsed or executed
FailingNodes(tr, store) ==
    {n \in 1..Len(tr) :
        \/ tr[n].kind \notin RegisteredKinds
        \/ \E i \in 1..Len(Registrations) :
              /\ Registrations[i][1] = tr[n].kind
              /\ store[RegisteredFile(i)] # "ok"}

\* build/<path>/index.html, component by component
TargetOf(pagePath) ==
    << <<"build">> >> \o SelectSeq(Split(pagePath), LAMBDA c : c # <<>>)
                      \o << <<"index.html">> >>

FilesOf(f) == {p \in DOMAIN f : f[p].type = "file"}

FileState(f, p) ==
    IF p \in DOMAIN f THEN [present |-> TRUE, data |-> f[p].data]
    ELSE [present |-> FALSE, data |-> <<>>]

----------------------------------------------------------------------------
(* C1.  Whenever a renderAstNode call returns without error, its output is *)
(* made of the own fragments of the node and of the siblings that follow   *)
(* it, one fragment per sibling, in left-to-right order, with exactly one  *)
(* newline between consecutive fragments and none after the last; every    *)
(* fragment is the instantiation of its node's template and holds, as its  *)
(* children, what the call on the node's first child returned.             *)
C1_OrderPreserved ==
    \A t \in threads :
        /\ (pc[t] = "return" /\ ret[t].err = Nil) =>
              LET chain == SiblingChain(tree, Top(t).n)
                  out == ret[t].out
              IN /\ Len(out) = 2 * Len(chain) - 1
                 /\ \A i \in 1..Len(chain) :
                       FragmentsOf(t, chain[i]) = {<<out[2 * i - 1]>>}
                 /\ \A i \in 1..(Len(chain) - 1) : out[2 * i] = NL
        /\ \A e \in Range(hist[t].rendered) :
              /\ Len(e.out) = 1
              /\ e.out[1].tmpl = KindTemplateMap[tree[e.n].kind]
              /\ IF HasChildren(tree, e.n)
                 THEN \E r \in ReturnsOf(t, FirstChild(tree, e.n)) :
                          r.err = Nil /\ e.out[1].data.Children = r.out
                 ELSE e.out[1].data.Children = <<>>

\* the document's first child returns two fragments joined by one newline
C1_Witness ==
    /\ pc[1] = "return"
    /\ ret[1].err = Nil
    /\ Len(stack[1]) = 2
    /\ Top(1).n = 2
    /\ Len(SiblingChain(tree, 2)) >= 2

(* C2.  A failure to resolve, read, parse or execute the template of any   *)
(* node makes every renderAstNode call it passes through return an error    *)
(* with an empty output, makes RenderAst return that error, and leaves the  *)
(* file system as it was; the error of an unregistered kind names the kind. *)
C2_FailureAborts ==
    \A t \in threads :
        /\ (pc[t] = "return" /\ ret[t].err # Nil) =>
              ret[t].out = <<>> /\ ret[t].err = hist[t].failure
        /\ hist[t].failure # Nil =>
              /\ pc[t] \in {"return", "idle"}
              /\ fs = hist[t].fsBefore
              /\ pc[t] = "idle" => LastResult(t) = hist[t].failure
        /\ (hist[t].failedAt # 0 /\ tree[hist[t].failedAt].kind \notin RegisteredKinds)
              => hist[t].failure = UnregisteredKind(tree[hist[t].failedAt].kind)
        /\ (Finished(t) /\ ValidationError(meta) = Nil
                /\ FailingNodes(tree, templates) # {}) =>
              /\ LastResult(t).type \in {"unregistered", "readfile", "parse", "exec"}
              /\ hist[t].failedAt \in FailingNodes(tree, templates)
              /\ fs = hist[t].fsBefore

\* the last of three nodes has no template: its elder sibling had already
\* been rendered when the call failed
C2_Witness ==
    /\ Finished(1)
    /\ LastResult(1).type = "unregistered"
    /\ hist[1].failedAt = 3
    /\ tree[2].next = 3
    /\ Len(hist[1].rendered) >= 1

(* C3.  With a required key missing from the metadata, RenderAst returns an *)
(* error that names a key that is missing, and it has done nothing else:    *)
(* no node entered, no access to the registry, registry and file system as  *)
(* they were when the call began.                                           *)
C3_MissingFieldRejected ==
    \A t \in threads :
        (MissingKeys(meta) # {} /\ Len(results[t]) >= 1) =>
            /\ pc[t] = "idle"
            /\ \A i \in 1..Len(results[t]) :
                  /\ results[t][i].type = "missing"
                  /\ results[t][i].field \in MissingKeys(meta)
            /\ hist[t].visited = <<>>
            /\ hist[t].handed = <<>>
            /\ hist[t].registryOps = 0
            /\ KindTemplateMap = hist[t].mapBefore
            /\ fs = hist[t].fsBefore
            /\ stack[t] = <<>>

\* slug alone is missing and the call has returned
C3_Witness ==
    /\ MissingKeys(meta) = {"slug"}
    /\ Finished(1)
    /\ LastResult(1) = MissingField("slug")

(* C4.  With the four keys present: a path that does not start with "/"    *)
(* fails validation and nothing is written; a path that starts with "/",    *)
(* once the tree has rendered and the call is over, has its output in       *)
(* build/<path>/index.html and in no other file.  (Stated for a device      *)
(* that does not fail.)                                                     *)
C4_PathDecidesPlacement ==
    \A t \in threads :
        (Finished(t) /\ MissingKeys(meta) = {} /\ ~diskFault) =>
            LET pagePath == Sprintf(meta["path"]) IN
            IF ~HasPrefixSlash(pagePath)
            THEN LastResult(t) = BadPath /\ fs = hist[t].fsBefore
            ELSE (\E r \in ReturnsOf(t, 1) : r.err = Nil) =>
                    /\ TargetOf(pagePath) \in FilesOf(fs)
                    /\ fs[TargetOf(pagePath)].data = local[t].output
                    /\ FilesOf(fs) \ FilesOf(hist[t].fsBefore) \subseteq
                           {TargetOf(pagePath)}

(* C5.  The registry is populated at most once, no lookup is made in a map  *)
(* that is not fully populated, and no kind that InitKindTemplateMap        *)
(* registers is reported as unregistered.                                   *)
C5_InitSerialised ==
    /\ Cardinality({t \in threads : hist[t].inits > 0}) <= 1
    /\ \A t \in threads :
          /\ pc[t] = "lookup" => KindTemplateMap = MapAfter(Len(Registrations))
          /\ hist[t].failure.type = "unregistered" =>
                hist[t].failure.kind \notin RegisteredKinds

(* C6.  Two calls of RenderAst in sequence on the same valid page, with     *)
(* sound templates and a sound device, both succeed, and afterwards the     *)
(* only file is build/<path>/index.html, holding the rendered page.         *)
C6_RenderTwice ==
    \A t \in threads :
        (Finished(t) /\ Len(results[t]) >= 2 /\ ValidationError(meta) = Nil
             /\ FailingNodes(tree, templates) = {} /\ ~diskFault) =>
            /\ results[t][1] = Nil
            /\ results[t][2] = Nil
            /\ FilesOf(fs) = {TargetOf(Sprintf(meta["path"]))}
            /\ fs[TargetOf(Sprintf(meta["path"]))].data = local[t].output

(* C7.  In every state the output file is either as it was when the call    *)
(* began or holds the complete rendered page.                               *)
C7_AtomicWrite ==
    \A t \in threads :
        (Len(results[t]) + (IF pc[t] = "idle" THEN 0 ELSE 1) >= 1
             /\ ValidationError(meta) = Nil) =>
            LET file == TargetOf(Sprintf(meta["path"])) IN
            \/ FileState(fs, file) = FileState(hist[t].fsBefore, file)
            \/ /\ pc[t] \in {"write", "idle"}
               /\ FileState(fs, file) = [present |-> TRUE, data |-> local[t].output]

(* C8.  For a plain text node, generateTemplateDataContent returns the      *)
(* bytes of the segment, then a newline when the soft-line-break flag is    *)
(* set and "<br/>" and a newline when it is not, and nothing else.          *)
C8_TextContent ==
    (pure.haveContent /\ pure.node.kind = "Text") =>
        LET n == pure.node.seg.Stop - pure.node.seg.Start
            c == pure.content
        IN /\ \A i \in 1..n : c[i] = pure.buf[pure.node.seg.Start + i]
           /\ IF pure.node.soft
              THEN Len(c) = n + 1 /\ c[n + 1] = "\n"
              ELSE Len(c) = n + 2 /\ c[n + 1] = "<br/>" /\ c[n + 2] = "\n"

\* a hard break after a segment of two bytes
C8_Witness ==
    /\ pure.haveContent
    /\ pure.node.kind = "Text"
    /\ ~pure.node.soft
    /\ pure.node.seg.Stop - pure.node.seg.Start >= 2
    /\ pure.content[Len(pure.content) - 1] = "<br/>"

(* C9.  For an emphasis node, generateTemplateDataConfig returns a mapping  *)
(* with tagType, which is "em" exactly when the level is 1 and "strong"     *)
(* for every other level, and never any other value.                        *)
C9_EmphasisTag ==
    (pure.haveConfig /\ pure.node.kind = "Emphasis") =>
        /\ DOMAIN pure.config = {"tagType"}
        /\ pure.config.tagType \in {"em", "strong"}
        /\ pure.config.tagType = "em" <=> pure.node.level = 1
        /\ pure.node.level > 1 => pure.config.tagType = "strong"

\* the strongest level the model draws
C9_Witness ==
    /\ pure.haveConfig
    /\ pure.node.kind = "Emphasis"
    /\ pure.node.level = MaxLevel
    /\ pure.config.tagType = "strong"

(* C10.  Every template is handed a page metadata whose title, description  *)
(* and slug are those of the input and whose path is the page's validated   *)
(* output path, and the source buffer reaches every node unchanged.         *)
C10_MetaPassedThrough ==
    \A t \in threads :
        \A e \in Range(hist[t].handed) :
            /\ e.data.Meta.Title = Sprintf(meta["title"])
            /\ e.data.Meta.Description = Sprintf(meta["description"])
            /\ e.data.Meta.Slug = Sprintf(meta["slug"])
            /\ e.data.Meta.Path = Sprintf(meta["path"])
            /\ e.buffer = bytes

====
